---------------------------- MODULE Spec2Model ----------------------------
(***************************************************************************)
(* Model of vampire_hunter.py: the snapshot builder                        *)
(* (get_listening_processes), the lifecycle controller (kill_process),     *)
(* the interactive session (interactive_menu) and the main loop.           *)
(*                                                                         *)
(* Text that the program parses character by character (operator input)    *)
(* is a sequence of one-character strings.  Tokens of tool output are      *)
(* strings; a line of tool output is the sequence of its whitespace-       *)
(* separated tokens, i.e. the value of line.split().                       *)
(***************************************************************************)
EXTENDS Integers, Sequences, FiniteSets, TLC

VARIABLES
    entry,          \* which function of the module was called
    call,           \* arguments and return value of a function called directly
    tools,          \* external utilities installed on the host
    pc,             \* position of the program
    lines,          \* result.stdout.strip().split('\n') of the lsof call
    idx,            \* 1-based index of the next element of data_lines
    seen_processes, \* the dedup set of get_listening_processes
    processes,      \* records built so far / the snapshot held by the caller
    lookups,        \* per record: the outcomes of the detail lookups (history)
    lsof_status,    \* how the lsof call of the current scan ended (history)
    sel,            \* index chosen at the choice prompt (1-based), 0 if none
    signals,        \* kill_process calls of the current selection (history)
    last_input,     \* the last input() call: the prompt it was at and what it gave (history)
    result,         \* value returned by interactive_menu, "running" before
    node_packages,  \* number of packages the Node sub-session lists
    out,            \* diagnostics printed by the last step
    exception,      \* exception that propagated out of the entry function
    exit_code       \* status given to sys.exit, -1 while running

scanVars == <<lines, idx, seen_processes, lookups, lsof_status>>

menuVars == <<sel, signals, last_input, result, node_packages>>

(***************************************************************************)
(* Bounds of the model                                                     *)
(***************************************************************************)
MaxRows == 2
MaxSnapshot == 2

(***************************************************************************)
(* Program constants                                                       *)
(***************************************************************************)
\* a field check that is one short
MinFieldsOneLess == 10 - 1

MinFields == 10
BytesPerKB == 1024
KBPerMB == 1024
KBPerGB == 1048576
PageSize == 16384
TopCount == 10

RequiredCommands == <<"lsof", "vm_stat", "ps">>

DetailsUnavailable == <<"Details", "unavailable">>

(***************************************************************************)
(* int(): the decimal literals among the tokens the model uses; any other  *)
(* token makes int() raise ValueError.                                     *)
(***************************************************************************)
IsIntLiteral(s) == s \in {"0", "100", "200", "1234"}

IntValue(s) ==
    CASE s = "0" -> 0
      [] s = "100" -> 100
      [] s = "200" -> 200
      [] s = "1234" -> 1234

(***************************************************************************)
(* Output of lsof -iTCP -sTCP:LISTEN -P -n                                 *)
(***************************************************************************)
LsofHeader ==
    <<"COMMAND", "PID", "USER", "FD", "TYPE", "DEVICE", "SIZE/OFF", "NODE", "NAME">>

LsofRow(name, pid, port) ==
    <<name, pid, "user", "10u", "IPv4", "0xabc", "0t0", "TCP", port, "(LISTEN)">>

DataRows ==
    { LsofRow("node", "100", "*:3000"),
      LsofRow("python", "100", "*:3000"),
      LsofRow("node", "100", "*:8080"),
      LsofRow("nginx", "200", "*:8080"),
      LsofRow("odd", "abc", "*:3000"),
      SubSeq(LsofRow("ruby", "200", "*:3000"), 1, 9) }

SeqsUpTo(S, n) == UNION { [1..k -> S] : k \in 0..n }

LsofStdouts == { <<LsofHeader>> \o rows : rows \in SeqsUpTo(DataRows, MaxRows) }

(***************************************************************************)
(* Outcomes of the per-process lookups                                     *)
(***************************************************************************)
PrimaryOutcomes(pid) ==
    IF ~IsIntLiteral(pid)
    THEN { [kind |-> "ValueError", rss |-> 0, cmdline |-> <<>>] }
    ELSE { [kind |-> "ok", rss |-> 524288, cmdline |-> <<"node", "server.js">>] }
         \cup { [kind |-> k, rss |-> 0, cmdline |-> <<>>]
                  : k \in {"NoSuchProcess", "AccessDenied"} }

\* stdout of ps -o rss,command= -p <pid>, as the lines of tokens it prints
PsStdouts ==
    { <<>>,
      << <<"RSS">>, <<"1234", "node", "server.js">> >>,
      << <<"1234", "node", "server.js">> >>,
      << <<"1234">> >> }

PsOutcomes ==
    IF "ps" \in tools
    THEN { [status |-> "ok", stdout |-> s] : s \in PsStdouts }
         \cup { [status |-> "nonzero", stdout |-> <<>>] }
    ELSE { [status |-> "missing", stdout |-> <<>>] }

PsNotRun == [status |-> "not_run", stdout |-> <<>>]

\* text.strip().split('\n') of a tool's stdout: never an empty list
StripSplitLines(stdout) == IF stdout = <<>> THEN << <<>> >> ELSE stdout

(***************************************************************************)
(* The detail lookup of one record, lines 361-382                          *)
(***************************************************************************)
Detail(raised, bytes, float, command) ==
    [raised |-> raised,
     memory_kb |-> [bytes |-> bytes, float |-> float],
     command |-> command]

\* the ps fallback, lines 369-382
SecondaryLookup(sec) ==
    IF sec.status = "missing" THEN Detail("FileNotFoundError", 0, FALSE, <<>>)
    ELSE IF sec.status = "nonzero" THEN Detail("none", 0, FALSE, DetailsUnavailable)
    ELSE LET ps_lines == StripSplitLines(sec.stdout)
             first == ps_lines[1]
         IN  IF first = <<>>
             THEN Detail("none", 0, FALSE, DetailsUnavailable)
             ELSE IF ~IsIntLiteral(first[1])
                  THEN Detail("none", 0, FALSE, DetailsUnavailable)
                  ELSE Detail("none", IntValue(first[1]) * BytesPerKB, FALSE,
                              IF Len(first) > 1 THEN Tail(first)
                              ELSE DetailsUnavailable)

\* psutil first, ps when psutil raises NoSuchProcess, AccessDenied or ValueError
DetailLookup(prim, sec) ==
    IF prim.kind = "ok"
    THEN Detail("none", prim.rss, TRUE, prim.cmdline)
    ELSE SecondaryLookup(sec)

(***************************************************************************)
(* format_memory, lines 44-51.  mem_kb is the record [bytes, float]: the   *)
(* number bytes / 1024, held as a float (psutil, line 365) or an int (ps,  *)
(* line 375, and the sentinel 0).  The text returned is the record         *)
(* [unit, form, whole, part]:                                              *)
(*   form "integer"     the digits of whole                    ("512 KB")  *)
(*   form "repr"        repr of a float: whole + part / 1024,              *)
(*                      always with a decimal point            ("512.0 KB")*)
(*   form "one_decimal" whole "." part, part one digit         ("1.0 MB")  *)
(***************************************************************************)
FormattedMemory(unit, form, whole, part) ==
    [unit |-> unit, form |-> form, whole |-> whole, part |-> part]

\* the number of tenths in f"{mem_kb / unit_kb:.1f}": the quotient is exact in
\* binary floating point (unit_kb is a power of two), and the format rounds it
\* to the nearest tenth, a tie to the even digit
RoundedTenths(bytes, unit_kb) ==
    LET kb_whole == bytes \div BytesPerKB
        kb_part == bytes % BytesPerKB
        tens == kb_whole * 10 + (kb_part * 10) \div BytesPerKB
        below == (kb_part * 10) % BytesPerKB
        floor == tens \div unit_kb
        rest == tens % unit_kb
    IN  IF 2 * rest > unit_kb \/ (2 * rest = unit_kb /\ below > 0) THEN floor + 1
        ELSE IF 2 * rest = unit_kb /\ floor % 2 = 1 THEN floor + 1
        ELSE floor

OneDecimal(unit, tenths) == FormattedMemory(unit, "one_decimal", tenths \div 10, tenths % 10)

format_memory(mem_kb) ==
    IF mem_kb.bytes >= KBPerGB * BytesPerKB
    THEN OneDecimal("GB", RoundedTenths(mem_kb.bytes, KBPerGB))
    ELSE IF mem_kb.bytes >= KBPerMB * BytesPerKB
    THEN OneDecimal("MB", RoundedTenths(mem_kb.bytes, KBPerMB))
    ELSE FormattedMemory("KB", IF mem_kb.float THEN "repr" ELSE "integer",
                         mem_kb.bytes \div BytesPerKB, mem_kb.bytes % BytesPerKB)

\* a key that forgets the port
ProcessKeyPidOnly(pid, port) == pid

\* line 356
ProcessKey(pid, port) == pid \o ":" \o port

LogLine(level, text) == [level |-> level, text |-> text]

(***************************************************************************)
(* Operator input: input() returns a line of characters or raises          *)
(* EOFError / KeyboardInterrupt.                                           *)
(***************************************************************************)
Line(text) == [kind |-> "line", text |-> text]

Interrupts ==
    { [kind |-> k, text |-> <<>>] : k \in {"EOFError", "KeyboardInterrupt"} }

Whitespace == {" "}

DecimalChars == {"0", "1", "2", "3", "9"}

\* characters for which str.isdigit() is true although int() rejects them
NonDecimalDigits == {"²"}

LowerChar(c) ==
    CASE c = "A" -> "a"
      [] c = "E" -> "e"
      [] c = "Q" -> "q"
      [] c = "R" -> "r"
      [] c = "S" -> "s"
      [] c = "Y" -> "y"
      [] OTHER -> c

RECURSIVE StripLeft(_)
StripLeft(s) ==
    IF s # <<>> /\ Head(s) \in Whitespace THEN StripLeft(Tail(s)) ELSE s

RECURSIVE StripRight(_)
StripRight(s) ==
    IF s # <<>> /\ s[Len(s)] \in Whitespace
    THEN StripRight(SubSeq(s, 1, Len(s) - 1))
    ELSE s

\* str.strip()
Strip(s) == StripRight(StripLeft(s))

\* str.lower()
Lower(s) == [i \in 1..Len(s) |-> LowerChar(s[i])]

\* input().strip().lower()
StripLower(text) == Lower(Strip(text))

\* str.isdigit()
IsDigit(s) ==
    /\ s # <<>>
    /\ \A i \in 1..Len(s) : s[i] \in DecimalChars \cup NonDecimalDigits

DigitValue(c) ==
    CASE c = "0" -> 0
      [] c = "1" -> 1
      [] c = "2" -> 2
      [] c = "3" -> 3
      [] c = "9" -> 9

\* int(s) raises ValueError unless every character is a decimal digit
IntRaises(s) == \E i \in 1..Len(s) : s[i] \notin DecimalChars

RECURSIVE IntOf(_)
IntOf(s) ==
    IF s = <<>> THEN 0
    ELSE 10 * IntOf(SubSeq(s, 1, Len(s) - 1)) + DigitValue(s[Len(s)])

\* a confirmation that accepts every answer beginning with y
AffirmativePrefix(confirm) == confirm # <<>> /\ confirm[1] = "y"

\* confirm in ['y', 'yes'], lines 488, 506, 509
Affirmative(confirm) == confirm \in { <<"y">>, <<"y", "e", "s">> }

ChoiceInputs ==
    { Line(t) : t \in { <<"1">>, <<"2">>, <<"3">>, <<"0">>, <<"9">>, <<"0", "2">>,
                        <<" ", "1", " ">>, <<"a">>, <<" ", "A", " ">>, <<"r">>,
                        <<"R">>, <<"q">>, <<"Q">>, <<"n">>, <<"m">>, <<>>,
                        <<"x">>, <<"-", "1">>, <<"²">>, <<"y">> } }
    \cup Interrupts

ConfirmInputs ==
    { Line(t) : t \in { <<"y">>, <<"Y">>, <<" ", "y", "e", "s", " ">>,
                        <<"Y", "E", "S">>, <<"n">>, <<>>, <<"y", "e", "p">>,
                        <<"y", " ", "e", "s">> } }
    \cup Interrupts

NodeInputs ==
    { Line(t) : t \in { <<"q">>, <<"l">>, <<"1">>, <<"9">>, <<"²">>, <<"x">> } }
    \cup Interrupts

NodeSubInputs == { Line(t) : t \in { <<"o">>, <<"e">>, <<"r">>, <<"x">> } } \cup Interrupts

(***************************************************************************)
(* kill_process, lines 400-419                                             *)
(***************************************************************************)
\* how the try block ends: int(pid) raises ValueError and psutil.Process()
\* raises NoSuchProcess (line 403, before any signal); terminate() / kill()
\* raise NoSuchProcess ("Vanished": the process ended in between),
\* AccessDenied or another OSError
KillOutcomes(pid) ==
    IF ~IsIntLiteral(pid)
    THEN {"ValueError"}
    ELSE {"ok", "NoSuchProcess", "Vanished", "AccessDenied", "OSError"}

AllKillOutcomes == {"ok", "NoSuchProcess", "Vanished", "AccessDenied", "OSError", "ValueError"}

\* outcomes of a try block that got as far as line 404
SignalCalled(os) == os \notin {"ValueError", "NoSuchProcess"}

\* a controller that escalates on its own: a forced call first tries terminate()
KillProcessEscalates(pid, name, force, os) ==
    [attempt |-> [pid |-> pid, name |-> name, force |-> force, outcome |-> os],
     sent |-> IF ~SignalCalled(os) THEN <<>>
              ELSE IF force THEN <<"SIGTERM", "SIGKILL">> ELSE <<"SIGTERM">>,
     ok |-> (os = "ok"),
     log |-> CASE os = "ok" /\ force -> LogLine("warning", "Force killed process")
               [] os = "ok" /\ ~force -> LogLine("success", "Successfully terminated process")
               [] os \in {"NoSuchProcess", "Vanished"} -> LogLine("error", "Process not found")
               [] os = "AccessDenied" -> LogLine("error", "Access denied")
               [] OTHER -> LogLine("error", "Error killing process")]

\* attempt: the call and how it ended; sent: the signals handed to the operating
\* system (proc.kill() sends SIGKILL, proc.terminate() SIGTERM); ok: the value
\* returned; log: the line printed
KillProcess(pid, name, force, os) ==
    [attempt |-> [pid |-> pid, name |-> name, force |-> force, outcome |-> os],
     sent |-> IF ~SignalCalled(os) THEN <<>>
              ELSE IF force THEN <<"SIGKILL">> ELSE <<"SIGTERM">>,
     ok |-> (os = "ok"),
     log |-> CASE os = "ok" /\ force -> LogLine("warning", "Force killed process")
               [] os = "ok" /\ ~force -> LogLine("success", "Successfully terminated process")
               [] os \in {"NoSuchProcess", "Vanished"} -> LogLine("error", "Process not found")
               [] os = "AccessDenied" -> LogLine("error", "Access denied")
               [] OTHER -> LogLine("error", "Error killing process")]

(***************************************************************************)
(* Names bound at module level: every def statement of the file            *)
(***************************************************************************)
DefinedNames ==
    { "log_info", "log_success", "log_warning", "log_error", "log_vampire",
      "format_memory", "get_system_memory_info", "find_node_packages",
      "display_node_packages", "interactive_node_package_manager",
      "get_memory_health_report", "display_memory_health",
      "get_listening_processes", "kill_process", "display_processes",
      "interactive_menu", "show_help", "main" }

\* get_memory_health_report, lines 268-284: the exception it raises, if any
GetMemoryHealthReportRaises ==
    IF "get_node_processes" \in DefinedNames THEN "none" ELSE "NameError"

(***************************************************************************)
(* get_system_memory_info, lines 53-89.  A line of vm_stat output is the   *)
(* record [label, rest]: the text before its first colon and the text      *)
(* after it, e.g. "Pages free" and "   100."; the labels vm_stat prints    *)
(* contain one of the five substrings of lines 62-74 only when they are    *)
(* equal to it.  A number of megabytes is held as the number of bytes it   *)
(* stands for (pages * page_size), the float being that number / 1048576.  *)
(***************************************************************************)
VmStatLine(label, rest) == [label |-> label, rest |-> rest]

\* lines 62-76 and 80-84: the label looked for, the key of the page count and
\* the key of the size in MB
PageFields ==
    << [label |-> "Pages free", pages |-> "free_pages", mb |-> "free_mb"],
       [label |-> "Pages active", pages |-> "active_pages", mb |-> "active_mb"],
       [label |-> "Pages inactive", pages |-> "inactive_pages", mb |-> "inactive_mb"],
       [label |-> "Pages wired down", pages |-> "wired_pages", mb |-> "wired_mb"],
       [label |-> "Pages stored in compressor", pages |-> "compressed_pages",
        mb |-> "compressed_mb"] >>

VmStatHeader == VmStatLine("Mach Virtual Memory Statistics", <<" ", "(", "p", ")">>)

VmStatFull ==
    << VmStatHeader,
       VmStatLine("Pages free", <<" ", " ", "1", "0", "0", ".">>),
       VmStatLine("Pages active", <<" ", "2", "3", ".">>),
       VmStatLine("Pages inactive", <<" ", "9", ".">>),
       VmStatLine("Pages speculative", <<" ", "1", ".">>),
       VmStatLine("Pages wired down", <<" ", "3", "0", ".">>),
       VmStatLine("Pages stored in compressor", <<" ", "0", ".">>) >>

\* stdout of vm_stat
VmStatStdouts ==
    { <<>>,
      VmStatFull,
      SubSeq(VmStatFull, 1, 3),
      << VmStatHeader, VmStatLine("Pages active", <<" ", "2", "3", ".">>) >>,
      << VmStatHeader, VmStatLine("Pages free", <<" ", "1", ".">>),
         VmStatLine("Pages active", <<" ", "x", ".">>) >>,
      << VmStatHeader, VmStatLine("Pages free", <<" ">>) >> }

\* how the vm_stat call of line 57 ends; it is run without check=True, so a
\* non-zero exit status raises nothing
VmStatOutcomes ==
    IF "vm_stat" \in tools
    THEN { [status |-> "ok", stdout |-> o] : o \in VmStatStdouts }
         \cup { [status |-> "nonzero", stdout |-> <<>>] }
    ELSE { [status |-> "missing", stdout |-> <<>>] }

\* result.stdout.strip().split('\n'): never an empty list
VmStatLines(stdout) == IF stdout = <<>> THEN <<VmStatLine("", <<>>)>> ELSE stdout

\* .strip().replace('.', '')
StripDots(rest) == SelectSeq(Strip(rest), LAMBDA c : c # ".")

PagesRaises(rest) == StripDots(rest) = <<>> \/ IntRaises(StripDots(rest))

\* value: the dict returned, a function on its keys; logs: the lines printed
GetSystemMemoryInfo(vm) ==
    LET failed == [value |-> <<>>,
                   logs |-> <<LogLine("error", "Error getting system memory info")>>]
        lines_ == VmStatLines(vm.stdout)
        matches(f) == { i \in DOMAIN lines_ : lines_[i].label = PageFields[f].label }
        last(f) == CHOOSE i \in matches(f) : \A j \in matches(f) : j <= i
        pages(f) == IF matches(f) = {} THEN 0 ELSE IntOf(StripDots(lines_[last(f)].rest))
        seen == { f \in DOMAIN PageFields : matches(f) # {} }
        keys == { PageFields[f].pages : f \in seen } \cup { PageFields[f].mb : f \in DOMAIN PageFields }
        field(k) == CHOOSE f \in DOMAIN PageFields : k \in {PageFields[f].pages, PageFields[f].mb}
    IN  IF vm.status = "missing"
        THEN failed
        ELSE IF \E f \in DOMAIN PageFields : \E i \in matches(f) : PagesRaises(lines_[i].rest)
        THEN failed
        ELSE [value |-> [k \in keys |->
                           IF k = PageFields[field(k)].pages
                           THEN pages(field(k))
                           ELSE pages(field(k)) * PageSize],
              logs |-> <<>>]

\* the diagnostics get_system_memory_info prints when called at line 270
SystemMemoryInfoLogs == { GetSystemMemoryInfo(vm).logs : vm \in VmStatOutcomes }

(***************************************************************************)
(* get_memory_health_report and display_memory_health, lines 268-326: what *)
(* they do with node_processes once line 271 has given them one.  A record *)
(* of node_processes has the fields these lines read: pid, rss_kb, type    *)
(* and command (mem_percent and rss_formatted are printed as they come).   *)
(***************************************************************************)
NodeProcessRecords ==
    [pid : {"100", "200"}, rss_kb : {100, 2048}, type : {"relevant", "noise"},
     command : { <<"node", "server.js">>, <<"Code", "Helper", "node">> }]

NodeProcessLists == SeqsUpTo(NodeProcessRecords, MaxSnapshot)

\* line 273
RECURSIVE TotalRss(_)
TotalRss(node_processes) ==
    IF node_processes = <<>> THEN 0
    ELSE Head(node_processes).rss_kb + TotalRss(Tail(node_processes))

\* line 311: sorted(..., key=rss_kb, reverse=True) is stable, so a record goes
\* behind every record that is at least as large and precedes it in the list
RECURSIVE SortedNodes(_)
SortedNodes(node_processes) ==
    IF node_processes = <<>> THEN <<>>
    ELSE LET n == Len(node_processes)
             proc == node_processes[n]
             before == SortedNodes(SubSeq(node_processes, 1, n - 1))
             ahead == Cardinality({ i \in DOMAIN before : before[i].rss_kb >= proc.rss_kb })
         IN  SubSeq(before, 1, ahead) \o <<proc>> \o SubSeq(before, ahead + 1, n - 1)

\* lines 309-322: the rows of the table, empty when there is no record
TableData(node_processes) ==
    LET sorted_nodes == SortedNodes(node_processes)
    IN  SubSeq(sorted_nodes, 1,
               IF Len(sorted_nodes) < TopCount THEN Len(sorted_nodes) ELSE TopCount)

\* the report of lines 276-282 as display_memory_health prints it
MemoryHealthReport(system_info, node_processes) ==
    [level |-> "report", text |-> "System Memory Health Report",
     system_info |-> system_info,
     node_processes |-> node_processes,
     node_process_count |-> Len(node_processes),
     total_node_memory_formatted |->
         format_memory([bytes |-> TotalRss(node_processes) * BytesPerKB, float |-> FALSE]),
     table_data |-> TableData(node_processes)]

\* display_memory_health: the exception it raises and the lines it prints
DisplayMemoryHealth ==
    IF GetMemoryHealthReportRaises # "none"
    THEN { [raised |-> GetMemoryHealthReportRaises, out |-> logs] :
             logs \in SystemMemoryInfoLogs }
    ELSE { [raised |-> "none",
            out |-> GetSystemMemoryInfo(vm).logs
                    \o <<MemoryHealthReport(GetSystemMemoryInfo(vm).value, nodes)>>] :
             vm \in VmStatOutcomes, nodes \in NodeProcessLists }

(***************************************************************************)
(* Snapshots handed to interactive_menu when it is called directly         *)
(***************************************************************************)
MenuRecords ==
    { [pid |-> "100", name |-> "node", port |-> "*:3000",
       memory_kb |-> [bytes |-> 2097152, float |-> TRUE],
       memory_formatted |-> format_memory([bytes |-> 2097152, float |-> TRUE]),
       command |-> <<"node", "server.js">>],
      [pid |-> "100", name |-> "node", port |-> "*:8080",
       memory_kb |-> [bytes |-> 2097152, float |-> TRUE],
       memory_formatted |-> format_memory([bytes |-> 2097152, float |-> TRUE]),
       command |-> <<"node", "server.js">>],
      [pid |-> "200", name |-> "nginx", port |-> "*:8080",
       memory_kb |-> [bytes |-> 0, float |-> FALSE],
       memory_formatted |-> format_memory([bytes |-> 0, float |-> FALSE]),
       command |-> DetailsUnavailable] }

MenuSnapshots ==
    { s \in SeqsUpTo(MenuRecords, MaxSnapshot) :
        \A i, j \in DOMAIN s : s[i] = s[j] => i = j }

(***************************************************************************)
(* Initial states: the script is run (main), or one of the module's        *)
(* functions is called by an importing program.                            *)
(***************************************************************************)
NoCall == [fn |-> "none"]

InitMain ==
    /\ entry = "main"
    /\ call = NoCall
    /\ tools \in SUBSET {"lsof", "vm_stat", "ps"}
    /\ pc = "tool_check"
    /\ processes = <<>>

InitScan ==
    /\ entry = "get_listening_processes"
    /\ call = NoCall
    /\ tools \in SUBSET {"lsof", "ps"}
    /\ pc = "scan"
    /\ processes = <<>>

InitMenu ==
    /\ entry = "interactive_menu"
    /\ call = NoCall
    /\ tools \in {{"lsof", "ps"}, {"lsof", "vm_stat", "ps"}}
    /\ pc = "menu_enter"
    /\ processes \in MenuSnapshots

\* kill_process(pid, name, force) called on its own
KillArguments ==
    [pid : {"100", "abc"}, name : {"node"}, force : BOOLEAN]

InitKill ==
    /\ entry = "kill_process"
    /\ call \in { [fn |-> "kill_process", args |-> a, outcome |-> "pending",
                       sent |-> <<>>, value |-> FALSE] :
                     a \in KillArguments }
    /\ tools = {"lsof", "vm_stat", "ps"}
    /\ pc = "kill"
    /\ processes = <<>>

\* format_memory(mem_kb) called on its own, with the values a record can carry:
\* rss / 1024 for a resident size in bytes, a whole number of KB from ps, or 0
FormatArguments ==
    { [bytes |-> b, float |-> TRUE] :
        b \in {0, 1000, 524288, 1048575, 1048576, 1310720, 1835008,
                1073741823, 1073741824, 1610612736} }
    \cup { [bytes |-> kb * BytesPerKB, float |-> FALSE] :
             kb \in {0, 512, 1023, 1024, 2148, 1048575, 1048576} }

InitFormat ==
    /\ entry = "format_memory"
    /\ call \in { [fn |-> "format_memory", args |-> a,
                       value |-> FormattedMemory("", "pending", 0, 0)] :
                     a \in FormatArguments }
    /\ tools = {"lsof", "vm_stat", "ps"}
    /\ pc = "format"
    /\ processes = <<>>

\* get_system_memory_info() called on its own
InitMemoryInfo ==
    /\ entry = "get_system_memory_info"
    /\ call = [fn |-> "get_system_memory_info",
               vm_stat |-> [status |-> "pending", stdout |-> <<>>], value |-> <<>>]
    /\ tools \in {{"lsof", "ps"}, {"lsof", "vm_stat", "ps"}}
    /\ pc = "memory_info"
    /\ processes = <<>>

NoInput == [at |-> "none", kind |-> "none", text |-> <<>>]

Init ==
    /\ InitMain \/ InitScan \/ InitMenu \/ InitKill \/ InitFormat \/ InitMemoryInfo
    /\ sel = 0
    /\ signals = <<>>
    /\ last_input = NoInput
    /\ result = "running"
    /\ node_packages = 0
    /\ lines = <<>>
    /\ idx = 1
    /\ seen_processes = {}
    /\ lookups = <<>>
    /\ lsof_status = "not_run"
    /\ out = <<>>
    /\ exception = "none"
    /\ exit_code = -1

(***************************************************************************)
(* main, lines 594-599: the startup tool check                             *)
(***************************************************************************)
MissingCommands == { i \in 1..Len(RequiredCommands) : RequiredCommands[i] \notin tools }

\* a check that reports the first missing command and carries on
ToolCheckWarnsOnly ==
    /\ pc = "tool_check"
    /\ pc' = "scan"
    /\ out' = IF MissingCommands = {}
              THEN <<>>
              ELSE LET first == CHOOSE i \in MissingCommands : \A j \in MissingCommands : i <= j
                   IN  <<LogLine("error", RequiredCommands[first] \o " command not found")>>
    /\ UNCHANGED <<entry, call, tools, processes, exception, exit_code, scanVars, menuVars>>

\* the loop over required_commands stops at the first `which` that fails;
\* `which` itself is taken to be installed
ToolCheck ==
    /\ pc = "tool_check"
    /\ IF MissingCommands = {}
       THEN /\ pc' = "scan"
            /\ out' = <<>>
            /\ exit_code' = exit_code
       ELSE LET first == CHOOSE i \in MissingCommands : \A j \in MissingCommands : i <= j
            IN  /\ pc' = "exit"
                /\ out' = <<LogLine("error", RequiredCommands[first] \o " command not found")>>
                /\ exit_code' = 1
    /\ UNCHANGED <<entry, call, tools, processes, exception, scanVars, menuVars>>

(***************************************************************************)
(* get_listening_processes, lines 328-398                                  *)
(***************************************************************************)
\* where a function called by main, or called directly, hands control back
AfterScan == IF entry = "main" THEN "display" ELSE "scan_returned"

\* lines 332-343 and 396-398: the lsof call and the header check
RunLsof ==
    /\ pc = "scan"
    /\ \/ /\ "lsof" \notin tools                    \* FileNotFoundError: not caught
          /\ lsof_status' = "missing"
          /\ pc' = "crashed"
          /\ exception' = "FileNotFoundError"
          /\ UNCHANGED <<lines, processes, out>>
       \/ /\ "lsof" \in tools                       \* CalledProcessError (check=True)
          /\ lsof_status' = "nonzero"
          /\ pc' = AfterScan
          /\ processes' = <<>>
          /\ out' = <<LogLine("error", "Error running lsof")>>
          /\ UNCHANGED <<lines, exception>>
       \/ /\ "lsof" \in tools
          /\ lsof_status' = "ok"
          /\ \E stdout \in LsofStdouts :
               /\ lines' = StripSplitLines(stdout)
               /\ IF Len(lines') <= 1
                  THEN pc' = AfterScan
                  ELSE pc' = "scan_loop"
          /\ processes' = <<>>
          /\ out' = <<>>
          /\ UNCHANGED exception
    /\ idx' = 1
    /\ seen_processes' = {}
    /\ lookups' = <<>>
    /\ UNCHANGED <<entry, call, tools, exit_code, menuVars>>

data_lines == Tail(lines)

\* lines 345-393: one iteration of the loop over data_lines
ParseLine ==
    /\ pc = "scan_loop"
    /\ idx <= Len(data_lines)
    /\ LET parts == data_lines[idx]
       IN  IF Len(parts) < MinFields
           THEN UNCHANGED <<pc, seen_processes, processes, lookups, exception>>
           ELSE LET pid == parts[2]
                    name == parts[1]
                    port == parts[9]
                    process_key == ProcessKey(pid, port)
                IN  IF process_key \in seen_processes
                    THEN UNCHANGED <<pc, seen_processes, processes, lookups, exception>>
                    ELSE /\ seen_processes' = seen_processes \cup {process_key}
                         /\ \E prim \in PrimaryOutcomes(pid) :
                            \E sec \in (IF prim.kind = "ok" THEN {PsNotRun} ELSE PsOutcomes) :
                               LET d == DetailLookup(prim, sec)
                               IN  IF d.raised # "none"
                                   THEN /\ pc' = "crashed"
                                        /\ exception' = d.raised
                                        /\ UNCHANGED <<processes, lookups>>
                                   ELSE /\ processes' = Append(processes,
                                              [pid |-> pid, name |-> name, port |-> port,
                                               memory_kb |-> d.memory_kb,
                                               memory_formatted |-> format_memory(d.memory_kb),
                                               command |-> d.command])
                                        /\ lookups' = Append(lookups,
                                              [primary |-> prim, secondary |-> sec])
                                        /\ UNCHANGED <<pc, exception>>
    /\ idx' = idx + 1
    /\ out' = <<>>
    /\ UNCHANGED <<entry, call, tools, lines, lsof_status, exit_code, menuVars>>

\* line 395
ScanReturn ==
    /\ pc = "scan_loop"
    /\ idx > Len(data_lines)
    /\ pc' = AfterScan
    /\ out' = <<>>
    /\ UNCHANGED <<entry, call, tools, processes, exception, exit_code, scanVars, menuVars>>

(***************************************************************************)
(* main, lines 605-617: the steps of the loop after the scan               *)
(***************************************************************************)
\* display_processes, lines 421-458
DisplayProcesses ==
    /\ pc = "display"
    /\ pc' = "memory_health"
    /\ out' = IF processes = <<>>
              THEN <<LogLine("success", "No server processes found")>>
              ELSE <<LogLine("info", "Total processes")>>
    /\ UNCHANGED <<entry, call, tools, processes, exception, exit_code, scanVars, menuVars>>

\* display_memory_health, lines 286-326, as called at line 612
MainMemoryHealth ==
    /\ pc = "memory_health"
    /\ \E shown \in DisplayMemoryHealth :
          /\ out' = shown.out
          /\ IF shown.raised # "none"
             THEN /\ pc' = "crashed"
                  /\ exception' = shown.raised
             ELSE /\ pc' = "menu_enter"
                  /\ UNCHANGED exception
    /\ UNCHANGED <<entry, call, tools, processes, exit_code, scanVars, menuVars>>

(***************************************************************************)
(* interactive_menu, lines 460-526                                         *)
(***************************************************************************)
Prompts == {"await_choice", "confirm_bulk", "confirm_single", "confirm_force"}

\* interactive_menu returns r; lines 615-617 of main decide what follows
Return(r) ==
    /\ result' = r
    /\ pc' = IF entry = "main"
             THEN (IF r = "True" THEN "scan" ELSE "exit")
             ELSE "menu_returned"
    /\ exit_code' = IF entry = "main" /\ r # "True" THEN 0 ELSE exit_code

menuFrame == <<entry, call, tools, processes, scanVars>>

\* lines 462-463
MenuEnter ==
    /\ pc = "menu_enter"
    /\ IF processes = <<>>
       THEN Return("None")
       ELSE /\ pc' = "await_choice"
            /\ UNCHANGED <<result, exit_code>>
    /\ out' = <<>>
    /\ UNCHANGED <<menuFrame, exception, sel, signals, last_input, node_packages>>

\* the record kept of an input() call
Read(ev) == [at |-> pc, kind |-> ev.kind, text |-> ev.text]

\* a session without the two except clauses: the exception leaves the menu
InputInterruptedUncaught ==
    /\ pc \in Prompts
    /\ \E ev \in Interrupts :
          /\ last_input' = Read(ev)
          /\ exception' = ev.kind
    /\ pc' = "crashed"
    /\ out' = <<>>
    /\ UNCHANGED <<menuFrame, sel, signals, result, exit_code, node_packages>>

\* lines 517-524: input() raised at one of the prompts of the session
InputInterrupted ==
    /\ pc \in Prompts
    /\ \E ev \in Interrupts : last_input' = Read(ev)
    /\ out' = <<LogLine("info", "Exiting...")>>
    /\ Return("False")
    /\ UNCHANGED <<menuFrame, exception, sel, signals, node_packages>>

\* the line read at the choice prompt, line 476
ReadChoice(ev) ==
    /\ pc = "await_choice"
    /\ ev \in ChoiceInputs
    /\ ev.kind = "line"
    /\ last_input' = Read(ev)
    /\ signals' = <<>>

\* lines 478-482
ChoiceNode ==
    \E ev \in ChoiceInputs :
        /\ ReadChoice(ev)
        /\ StripLower(ev.text) = <<"n">>
        /\ \E found \in {"none", "some", "raises"} :
              CASE found = "none" ->
                     /\ pc' = "await_choice"
                     /\ node_packages' = 0
                     /\ out' = <<LogLine("success", "No Node.js packages found")>>
                     /\ UNCHANGED exception
                [] found = "some" ->
                     /\ pc' = "node_menu"
                     /\ node_packages' = 1
                     /\ out' = <<LogLine("info", "Total Node.js packages found")>>
                     /\ UNCHANGED exception
                [] found = "raises" ->
                     /\ pc' = "crashed"
                     /\ exception' = "AttributeError"
                     /\ out' = <<>>
                     /\ UNCHANGED node_packages
        /\ UNCHANGED <<menuFrame, sel, result, exit_code>>

\* lines 483-485
ChoiceQuit ==
    \E ev \in ChoiceInputs :
        /\ ReadChoice(ev)
        /\ StripLower(ev.text) = <<"q">>
        /\ out' = <<LogLine("info", "Exiting...")>>
        /\ Return("False")
        /\ UNCHANGED <<menuFrame, exception, sel, node_packages>>

\* line 486
ChoiceAll ==
    \E ev \in ChoiceInputs :
        /\ ReadChoice(ev)
        /\ StripLower(ev.text) = <<"a">>
        /\ pc' = "confirm_bulk"
        /\ out' = <<>>
        /\ UNCHANGED <<menuFrame, exception, sel, result, exit_code, node_packages>>

\* lines 496-497
ChoiceMemory ==
    \E ev \in ChoiceInputs :
        /\ ReadChoice(ev)
        /\ StripLower(ev.text) = <<"m">>
        /\ \E shown \in DisplayMemoryHealth :
              /\ out' = shown.out
              /\ IF shown.raised # "none"
                 THEN /\ pc' = "crashed"
                      /\ exception' = shown.raised
                 ELSE /\ pc' = "await_choice"
                      /\ UNCHANGED exception
        /\ UNCHANGED <<menuFrame, sel, result, exit_code, node_packages>>

\* lines 498-500
ChoiceRefresh ==
    \E ev \in ChoiceInputs :
        /\ ReadChoice(ev)
        /\ StripLower(ev.text) = <<"r">>
        /\ out' = <<LogLine("info", "Refreshing process list...")>>
        /\ Return("True")
        /\ UNCHANGED <<menuFrame, exception, sel, node_packages>>

Letters == { <<"n">>, <<"q">>, <<"a">>, <<"m">>, <<"r">> }

\* lines 501-504 and 513-514
ChoiceNumber ==
    \E ev \in ChoiceInputs :
        /\ ReadChoice(ev)
        /\ LET choice == StripLower(ev.text)
           IN  /\ choice \notin Letters
               /\ IsDigit(choice)
               /\ IF IntRaises(choice)
                  THEN /\ pc' = "crashed"
                       /\ exception' = "ValueError"
                       /\ out' = <<>>
                       /\ UNCHANGED sel
                  ELSE LET index == IntOf(choice)
                       IN  IF 1 <= index /\ index <= Len(processes)
                           THEN /\ pc' = "confirm_single"
                                /\ sel' = index
                                /\ out' = <<>>
                                /\ UNCHANGED exception
                           ELSE /\ pc' = "await_choice"
                                /\ out' = <<LogLine("warning",
                                             "Invalid choice. Please enter a number between 1 and N")>>
                                /\ UNCHANGED <<sel, exception>>
        /\ UNCHANGED <<menuFrame, result, exit_code, node_packages>>

\* lines 515-516
ChoiceInvalid ==
    \E ev \in ChoiceInputs :
        /\ ReadChoice(ev)
        /\ LET choice == StripLower(ev.text)
           IN  /\ choice \notin Letters
               /\ ~IsDigit(choice)
        /\ pc' = "await_choice"
        /\ out' = <<LogLine("warning", "Invalid choice. Please enter a number")>>
        /\ UNCHANGED <<menuFrame, exception, sel, result, exit_code, node_packages>>

KilledLine(killed_count, total) ==
    [level |-> "success", text |-> "Killed",
     killed_count |-> killed_count, total |-> total]

\* a loop that stops at the first failed termination
BulkKillsStopAtFailure(os) ==
    LET failed == { i \in DOMAIN processes : os[i] # "ok" }
        last == IF failed = {} THEN Len(processes)
                ELSE CHOOSE i \in failed : \A j \in failed : i <= j
    IN  [i \in 1..last |->
           KillProcess(processes[i].pid, processes[i].name, FALSE, os[i])]

\* a bulk kill that goes straight to the forceful signal
BulkKillsForced(os) ==
    [i \in DOMAIN processes |->
       KillProcess(processes[i].pid, processes[i].name, TRUE, os[i])]

\* lines 490-492: one graceful kill_process call per record, in order
BulkKills(os) ==
    [i \in DOMAIN processes |->
       KillProcess(processes[i].pid, processes[i].name, FALSE, os[i])]

\* a force prompt offered after a successful kill instead of a failed one
AfterGracefulInverted(ok) == IF ok THEN "confirm_force" ELSE "await_choice"

\* line 507: the force prompt follows a graceful kill that returned False
AfterGraceful(ok) == IF ok THEN "await_choice" ELSE "confirm_force"

\* lines 487-495
ConfirmBulk ==
    /\ pc = "confirm_bulk"
    /\ \E ev \in ConfirmInputs :
        /\ ev.kind = "line"
        /\ last_input' = Read(ev)
        /\ IF Affirmative(StripLower(ev.text))
           THEN \E os \in [DOMAIN processes -> AllKillOutcomes] :
                  /\ \A i \in DOMAIN processes : os[i] \in KillOutcomes(processes[i].pid)
                  /\ LET kills == BulkKills(os)
                         killed_count == Cardinality({ i \in DOMAIN kills : kills[i].ok })
                     IN  /\ signals' = [i \in DOMAIN kills |-> kills[i].attempt]
                         /\ out' = [i \in DOMAIN kills |-> kills[i].log]
                                   \o <<KilledLine(killed_count, Len(processes))>>
           ELSE /\ out' = <<LogLine("info", "Cancelled")>>
                /\ UNCHANGED signals
    /\ pc' = "await_choice"
    /\ UNCHANGED <<menuFrame, exception, sel, result, exit_code, node_packages>>

\* a selection that is off by one: the record before the chosen one
processBeforeChosen == processes[IF sel > 1 THEN sel - 1 ELSE Len(processes)]

\* line 504: the record the operator chose (sel is index + 1)
process == processes[sel]

\* a session that drops a record from the snapshot once its process is killed
ConfirmSinglePrunes ==
    /\ pc = "confirm_single"
    /\ \E ev \in ConfirmInputs :
        /\ ev.kind = "line"
        /\ last_input' = Read(ev)
        /\ IF Affirmative(StripLower(ev.text))
           THEN \E os \in KillOutcomes(process.pid) :
                  LET k == KillProcess(process.pid, process.name, FALSE, os)
                  IN  /\ signals' = <<k.attempt>>
                      /\ out' = <<k.log>>
                      /\ pc' = AfterGraceful(k.ok)
                      /\ processes' = IF k.ok
                                      THEN SubSeq(processes, 1, sel - 1)
                                           \o SubSeq(processes, sel + 1, Len(processes))
                                      ELSE processes
           ELSE /\ out' = <<LogLine("info", "Cancelled")>>
                /\ pc' = "await_choice"
                /\ UNCHANGED <<signals, processes>>
    /\ UNCHANGED <<entry, call, tools, scanVars, exception, sel, result, exit_code,
                   node_packages>>

\* lines 505-507 and 511-512
ConfirmSingle ==
    /\ pc = "confirm_single"
    /\ \E ev \in ConfirmInputs :
        /\ ev.kind = "line"
        /\ last_input' = Read(ev)
        /\ IF Affirmative(StripLower(ev.text))
           THEN \E os \in KillOutcomes(process.pid) :
                  LET k == KillProcess(process.pid, process.name, FALSE, os)
                  IN  /\ signals' = <<k.attempt>>
                      /\ out' = <<k.log>>
                      /\ pc' = AfterGraceful(k.ok)
           ELSE /\ out' = <<LogLine("info", "Cancelled")>>
                /\ pc' = "await_choice"
                /\ UNCHANGED signals
    /\ UNCHANGED <<menuFrame, exception, sel, result, exit_code, node_packages>>

\* lines 508-510
ConfirmForce ==
    /\ pc = "confirm_force"
    /\ \E ev \in ConfirmInputs :
        /\ ev.kind = "line"
        /\ last_input' = Read(ev)
        /\ IF Affirmative(StripLower(ev.text))
           THEN \E os \in KillOutcomes(process.pid) :
                  LET k == KillProcess(process.pid, process.name, TRUE, os)
                  IN  /\ signals' = Append(signals, k.attempt)
                      /\ out' = <<k.log>>
           ELSE /\ out' = <<>>
                /\ UNCHANGED signals
    /\ pc' = "await_choice"
    /\ UNCHANGED <<menuFrame, exception, sel, result, exit_code, node_packages>>

(***************************************************************************)
(* interactive_node_package_manager, lines 196-265 (the sub-session of     *)
(* choice 'n'); it sends no signal and returns to the choice prompt.       *)
(***************************************************************************)
\* lines 209-220 and 254-265
NodeMenuInput ==
    /\ pc = "node_menu"
    /\ \E ev \in NodeInputs :
        /\ last_input' = Read(ev)
        /\ LET choice == StripLower(ev.text)
           IN  IF ev.kind # "line" \/ choice = <<"q">>
               THEN /\ pc' = "await_choice"
                    /\ out' = <<LogLine("info", "Returning to main menu...")>>
                    /\ UNCHANGED exception
               ELSE IF choice = <<"l">>
               THEN /\ pc' = "node_menu"
                    /\ out' = <<LogLine("info", "Total Node.js packages found")>>
                    /\ UNCHANGED exception
               ELSE IF IsDigit(choice)
               THEN IF IntRaises(choice)
                    THEN /\ pc' = "crashed"
                         /\ exception' = "ValueError"
                         /\ out' = <<>>
                    ELSE IF 1 <= IntOf(choice) /\ IntOf(choice) <= node_packages
                    THEN /\ pc' = "node_detail"
                         /\ out' = <<>>
                         /\ UNCHANGED exception
                    ELSE /\ pc' = "node_menu"
                         /\ out' = <<LogLine("warning", "Invalid choice. Please enter a number between 1 and N")>>
                         /\ UNCHANGED exception
               ELSE /\ pc' = "node_menu"
                    /\ out' = <<LogLine("warning", "Invalid choice. Please enter a number")>>
                    /\ UNCHANGED exception
    /\ UNCHANGED <<menuFrame, sel, signals, result, exit_code, node_packages>>

\* lines 236-253
NodeDetailInput ==
    /\ pc = "node_detail"
    /\ \E ev \in NodeSubInputs :
        /\ last_input' = Read(ev)
        /\ LET sub_choice == StripLower(ev.text)
           IN  IF ev.kind # "line"
               THEN /\ pc' = "await_choice"
                    /\ out' = <<LogLine("info", "Returning to main menu...")>>
                    /\ UNCHANGED exception
               ELSE IF sub_choice = <<"o">>
               THEN \E opened \in {"ok", "CalledProcessError", "FileNotFoundError"} :
                      CASE opened = "ok" ->
                             /\ pc' = "node_menu"
                             /\ out' = <<LogLine("success", "Opened in file manager")>>
                             /\ UNCHANGED exception
                        [] opened = "CalledProcessError" ->
                             /\ pc' = "node_menu"
                             /\ out' = <<LogLine("error", "Failed to open")>>
                             /\ UNCHANGED exception
                        [] opened = "FileNotFoundError" ->
                             /\ pc' = "crashed"
                             /\ exception' = "FileNotFoundError"
                             /\ out' = <<>>
               ELSE /\ pc' = "node_menu"
                    /\ out' = IF sub_choice \in { <<"e">>, <<"r">> }
                              THEN <<>>
                              ELSE <<LogLine("warning", "Invalid choice, returning to package list...")>>
                    /\ UNCHANGED exception
    /\ UNCHANGED <<menuFrame, sel, signals, result, exit_code, node_packages>>

(***************************************************************************)
(* Functions called directly                                               *)
(***************************************************************************)
\* kill_process, lines 400-419
KillCall ==
    /\ pc = "kill"
    /\ \E os \in KillOutcomes(call.args.pid) :
          LET k == KillProcess(call.args.pid, call.args.name, call.args.force, os)
          IN  /\ call' = [call EXCEPT !.outcome = k.attempt.outcome,
                                       !.sent = k.sent, !.value = k.ok]
              /\ out' = <<k.log>>
    /\ pc' = "kill_returned"
    /\ UNCHANGED <<entry, tools, processes, exception, exit_code, scanVars, menuVars>>

\* format_memory, lines 44-51
FormatCall ==
    /\ pc = "format"
    /\ call' = [call EXCEPT !.value = format_memory(call.args)]
    /\ pc' = "format_returned"
    /\ out' = <<>>
    /\ UNCHANGED <<entry, tools, processes, exception, exit_code, scanVars, menuVars>>

\* get_system_memory_info, lines 53-89
MemoryInfoCall ==
    /\ pc = "memory_info"
    /\ \E vm \in VmStatOutcomes :
          /\ call' = [call EXCEPT !.vm_stat = vm, !.value = GetSystemMemoryInfo(vm).value]
          /\ out' = GetSystemMemoryInfo(vm).logs
    /\ pc' = "memory_info_returned"
    /\ UNCHANGED <<entry, tools, processes, exception, exit_code, scanVars, menuVars>>

vars == <<entry, call, tools, pc, lines, idx, seen_processes, processes, lookups, lsof_status,
          sel, signals, last_input, result, node_packages, out, exception, exit_code>>

Next ==
    \/ ToolCheck
    \/ RunLsof
    \/ ParseLine
    \/ ScanReturn
    \/ DisplayProcesses
    \/ MainMemoryHealth
    \/ MenuEnter
    \/ InputInterrupted
    \/ ChoiceNode
    \/ ChoiceQuit
    \/ ChoiceAll
    \/ ChoiceMemory
    \/ ChoiceRefresh
    \/ ChoiceNumber
    \/ ChoiceInvalid
    \/ ConfirmBulk
    \/ ConfirmSingle
    \/ ConfirmForce
    \/ NodeMenuInput
    \/ NodeDetailInput
    \/ KillCall
    \/ FormatCall
    \/ MemoryInfoCall

Spec == Init /\ [][Next]_vars

(***************************************************************************)
(* Vocabulary of the claims about the interactive session                  *)
(***************************************************************************)
\* the answers, among those the operator gives here, that are y or yes up to
\* case and surrounding whitespace
YesAnswers == { <<"y">>, <<"Y">>, <<" ", "y", "e", "s", " ">>, <<"Y", "E", "S">> }

QuitAnswers == { <<"q">>, <<"Q">> }

ConfirmPrompts == {"confirm_single", "confirm_bulk", "confirm_force"}

\* this step called kill_process
SignalSent == signals' # signals /\ signals' # <<>>

Successes(sigs) == { i \in DOMAIN sigs : sigs[i].outcome = "ok" }

\* the state right after a line was read at prompt p
JustRead(p) == last_input.at = p /\ last_input.kind = "line"

\* a choice that is neither one of the five letters nor an index of a record
Unrecognized(text) ==
    LET choice == StripLower(text)
    IN  /\ choice \notin { <<"a">>, <<"r">>, <<"q">>, <<"n">>, <<"m">> }
        /\ ~ /\ choice # <<>>
             /\ \A i \in 1..Len(choice) : choice[i] \in DecimalChars
             /\ IntOf(choice) \in 1..Len(processes)

(***************************************************************************)
(* C1: kill_process is called only in the step that reads y or yes (any    *)
(* case, surrounding whitespace ignored) at the single-kill, bulk-kill or  *)
(* force-kill confirmation; any other answer there calls it zero times.    *)
(***************************************************************************)
C1_KillOnlyAfterYes ==
    [][ /\ SignalSent =>
              /\ pc \in ConfirmPrompts
              /\ last_input'.at = pc
              /\ last_input'.kind = "line"
              /\ last_input'.text \in YesAnswers
        /\ (pc \in ConfirmPrompts /\ last_input'.text \notin YesAnswers) =>
              signals' = signals ]_vars

C1_Witness ==
    /\ pc = "await_choice"
    /\ JustRead("confirm_single")
    /\ last_input.text = <<" ", "y", "e", "s", " ">>
    /\ Len(signals) = 1

(***************************************************************************)
(* C2: after yes at the bulk-kill confirmation, exactly one graceful kill  *)
(* was attempted per record, in snapshot order, whichever attempts failed, *)
(* and the one report printed is Killed K/N with K the number of attempts  *)
(* that succeeded and N the number of records.                             *)
(***************************************************************************)
C2_BulkKillAccounting ==
    (JustRead("confirm_bulk") /\ last_input.text \in YesAnswers) =>
        /\ Len(signals) = Len(processes)
        /\ \A i \in DOMAIN signals :
              /\ signals[i].pid = processes[i].pid
              /\ signals[i].name = processes[i].name
              /\ ~signals[i].force
        /\ Cardinality({ k \in DOMAIN out : out[k].text = "Killed" }) = 1
        /\ out[Len(out)].text = "Killed"
        /\ out[Len(out)].killed_count = Cardinality(Successes(signals))
        /\ out[Len(out)].total = Len(processes)

C2_Witness ==
    /\ JustRead("confirm_bulk")
    /\ last_input.text \in YesAnswers
    /\ Len(processes) = 2
    /\ signals[1].outcome = "AccessDenied"
    /\ signals[2].outcome = "ok"
    /\ out[Len(out)].killed_count = 1

(***************************************************************************)
(* C3: in the single-kill flow a forced kill is sent only as the second    *)
(* signal of a selection, to the pid whose graceful kill just failed, on   *)
(* yes at the force prompt; the force prompt follows a failed graceful     *)
(* kill and nothing else, is left after one answer, and a declined force   *)
(* prompt sends nothing and returns to the choice prompt.                  *)
(***************************************************************************)
C3_ForceOnlyAfterFailedGraceful ==
    [][ /\ \A i \in DOMAIN signals' :
              signals'[i].force =>
                  /\ i = 2
                  /\ Len(signals') = 2
                  /\ ~signals'[1].force
                  /\ signals'[1].outcome # "ok"
                  /\ signals'[1].pid = signals'[2].pid
        /\ (SignalSent /\ signals'[Len(signals')].force) =>
              /\ pc = "confirm_force"
              /\ last_input'.kind = "line"
              /\ last_input'.text \in YesAnswers
        /\ pc' = "confirm_force" <=>
              /\ pc = "confirm_single"
              /\ SignalSent
              /\ signals'[1].outcome # "ok"
        /\ (pc = "confirm_force" /\ last_input'.kind = "line"
                /\ last_input'.text \notin YesAnswers) =>
              /\ signals' = signals
              /\ pc' = "await_choice" ]_vars

C3_Witness ==
    /\ pc = "await_choice"
    /\ JustRead("confirm_force")
    /\ last_input.text \in YesAnswers
    /\ Len(signals) = 2
    /\ signals[1].outcome = "NoSuchProcess"
    /\ signals[2].force

(***************************************************************************)
(* C4: every line at the choice prompt that is none of a, r, q, n, m and   *)
(* no index within 1..N gets a usage warning, sends no signal and leads    *)
(* back to the choice prompt; none raises or ends the session.             *)
(***************************************************************************)
C4_UnrecognizedInputReprompts ==
    (JustRead("await_choice") /\ Unrecognized(last_input.text)) =>
        /\ pc = "await_choice"
        /\ exception = "none"
        /\ signals = <<>>
        /\ \E k \in DOMAIN out : out[k].level = "warning"

(***************************************************************************)
(* C5: EOFError or KeyboardInterrupt at any of the four prompts of the     *)
(* session, and q at the choice prompt, make interactive_menu return       *)
(* False without an exception and without a signal; after that return      *)
(* nothing more happens, in particular no further scan.                    *)
(***************************************************************************)
C5_InterruptEndsSession ==
    [][ /\ ( /\ pc \in Prompts
             /\ \/ last_input'.kind \in {"EOFError", "KeyboardInterrupt"}
                \/ /\ pc = "await_choice"
                   /\ last_input'.kind = "line"
                   /\ last_input'.text \in QuitAnswers ) =>
              /\ result' = "False"
              /\ exception' = "none"
              /\ ~SignalSent
              /\ pc' \in {"menu_returned", "exit"}
        /\ result # "False" ]_vars

C5_Witness ==
    /\ pc = "menu_returned"
    /\ result = "False"
    /\ exception = "none"
    /\ last_input.at = "confirm_force"
    /\ last_input.kind = "EOFError"
    /\ Len(signals) = 1

(***************************************************************************)
(* C6: once the tool check has passed nothing main calls raises, so a      *)
(* snapshot is followed by the choice prompt, and choice m leads back to   *)
(* the choice prompt.                                                      *)
(***************************************************************************)
C6_ReportingNeverCrashes ==
    (\A i \in DOMAIN RequiredCommands : RequiredCommands[i] \in tools) =>
        /\ entry = "main" => exception = "none"
        /\ (JustRead("await_choice") /\ StripLower(last_input.text) = <<"m">>) =>
              pc = "await_choice"

(***************************************************************************)
(* Vocabulary of the claims about the snapshot builder                     *)
(***************************************************************************)
ScanComplete == pc = AfterScan /\ lsof_status = "ok"

ValidRows == { i \in 1..Len(data_lines) : Len(data_lines[i]) >= MinFields }

RowPair(i) == <<data_lines[i][2], data_lines[i][9]>>

RecordPair(r) == <<processes[r].pid, processes[r].port>>

FirstRowOf(pair) ==
    CHOOSE i \in ValidRows :
        /\ RowPair(i) = pair
        /\ \A j \in ValidRows : RowPair(j) = pair => i <= j

RecordsOf(pair) == { r \in DOMAIN processes : RecordPair(r) = pair }

\* the scan ended by an exception raised inside the loop over the rows
LookupAborted == pc = "crashed" /\ lsof_status = "ok"

Sentinel(rec) ==
    rec.memory_kb.bytes = 0 /\ rec.command = DetailsUnavailable

\* ps ran, exited 0 and printed a row "<rss> <command...>" for the process
PsReportRows(sec) ==
    { k \in DOMAIN sec.stdout :
        /\ Len(sec.stdout[k]) > 1
        /\ IsIntLiteral(sec.stdout[k][1]) }

SecondarySucceeded(sec) == sec.status = "ok" /\ PsReportRows(sec) # {}

PsReported(sec) == sec.stdout[CHOOSE k \in PsReportRows(sec) : TRUE]

(***************************************************************************)
(* C7: no two records of a snapshot share a (pid, port) pair; rows with    *)
(* the same (pid, port) give exactly one record, which carries the name of *)
(* the first such row; a pid appears once per distinct port.               *)
(***************************************************************************)
C7_UniquePidPort ==
    /\ \A r1, r2 \in DOMAIN processes :
          RecordPair(r1) = RecordPair(r2) => r1 = r2
    /\ ScanComplete =>
          \A i \in ValidRows :
              /\ Cardinality(RecordsOf(RowPair(i))) = 1
              /\ \A r \in RecordsOf(RowPair(i)) :
                    processes[r].name = data_lines[FirstRowOf(RowPair(i))][1]

C7_Witness ==
    /\ ScanComplete
    /\ Len(data_lines) = 2
    /\ ValidRows = {1, 2}
    /\ RowPair(1) = RowPair(2)
    /\ data_lines[1][1] # data_lines[2][1]
    /\ Len(processes) = 1
    /\ processes[1].name = data_lines[1][1]

(***************************************************************************)
(* C8: a failing detail lookup never aborts the scan and never drops the   *)
(* record: a scan whose lsof call succeeded returns, and returns as many   *)
(* records as there are distinct (pid, port) pairs among the valid rows.   *)
(***************************************************************************)
C8_LookupFailureNeverAborts ==
    /\ ~LookupAborted
    /\ ScanComplete =>
          Len(processes) = Cardinality({ RowPair(i) : i \in ValidRows })

(***************************************************************************)
(* C9: psutil's values are used when psutil succeeds, and ps is then not   *)
(* run; when psutil fails and ps succeeds, the record carries the memory   *)
(* and command ps reported; a record carries both sentinels only when ps   *)
(* failed too.                                                             *)
(***************************************************************************)
C9_FallbackChain ==
    \A r \in DOMAIN lookups :
        LET prim == lookups[r].primary
            sec == lookups[r].secondary
            rec == processes[r]
        IN  /\ prim.kind = "ok" =>
                  /\ rec.memory_kb.bytes = prim.rss
                  /\ rec.command = prim.cmdline
                  /\ sec = PsNotRun
            /\ (prim.kind = "NoSuchProcess" /\ SecondarySucceeded(sec)) =>
                  /\ rec.memory_kb.bytes = IntValue(PsReported(sec)[1]) * BytesPerKB
                  /\ rec.command = Tail(PsReported(sec))
            /\ (prim.kind # "ok" /\ Sentinel(rec)) => ~SecondarySucceeded(sec)

(***************************************************************************)
(* C10: when the lsof call fails (non-zero exit or missing binary) the     *)
(* scan returns an empty list with an error diagnostic and raises nothing. *)
(***************************************************************************)
C10_LsofFailureReturnsEmpty ==
    lsof_status \in {"nonzero", "missing"} =>
        /\ exception = "none"
        /\ processes = <<>>
        /\ pc = AfterScan => \E k \in DOMAIN out : out[k].level = "error"

(***************************************************************************)
(* kill_process called on its own                                          *)
(***************************************************************************)
KillReturned == entry = "kill_process" /\ pc = "kill_returned"

\* the line kill_process printed and how the call ended
KillLog == out[1].text

KillOutcome == call.outcome

KillDiagnostics == {"Process not found", "Access denied", "Error killing process"}

\* what every call of kill_process does, whether or not a signal is sent
KillCallContract ==
    /\ exception = "none"
    /\ call.value \in BOOLEAN
    /\ Len(out) = 1
    /\ \A i \in DOMAIN call.sent :
          call.sent[i] = (IF call.args.force THEN "SIGKILL" ELSE "SIGTERM")
    /\ call.value <=> (Len(call.sent) = 1 /\ KillOutcome = "ok")
    /\ ~call.value =>
          /\ out[1].level = "error"
          /\ KillLog \in KillDiagnostics
          /\ KillLog = "Process not found" <=> KillOutcome \in {"NoSuchProcess", "Vanished"}
          /\ KillLog = "Access denied" <=> KillOutcome = "AccessDenied"
          /\ KillLog = "Error killing process" <=> KillOutcome \in {"OSError", "ValueError"}

\* C11 as stated: kill_process never raises; every call makes exactly one
\* signal attempt, graceful when force is false and forceful when it is true;
\* it returns True exactly when that signal was sent without error, and False
\* with a distinct diagnostic for not-found, permission-denied and any other
\* failure.
C11_ExactlyOneSignalPerCall ==
    KillReturned => KillCallContract /\ Len(call.sent) = 1

\* C11, amended: kill_process never raises and sends at most one signal per
\* call, of the kind its force flag selects: exactly one when int(pid) and
\* psutil.Process() succeed, none when either raises (a pid that is not a
\* number, a process that no longer exists).  It returns True exactly when the
\* signal was sent without error, and False with a distinct diagnostic for
\* not-found, permission-denied and any other failure.
C11_AtMostOneSignalPerCall ==
    KillReturned =>
        /\ KillCallContract
        /\ Len(call.sent) <= 1
        /\ Len(call.sent) = 1 <=> SignalCalled(KillOutcome)

\* a forced call on a process that no longer exists: no signal, False, diagnostic
C11_Witness ==
    /\ KillReturned
    /\ call.args.force
    /\ KillOutcome = "NoSuchProcess"
    /\ call.sent = <<>>
    /\ call.value = FALSE
    /\ KillLog = "Process not found"

(***************************************************************************)
(* Refresh                                                                 *)
(***************************************************************************)
\* this step reads the line the operator typed at the choice prompt
ChoiceRead(choice) ==
    /\ pc = "await_choice"
    /\ last_input'.kind = "line"
    /\ StripLower(last_input'.text) = choice

\* C12: choosing 'r' at the choice prompt sends no signal and makes the main
\* loop build a new snapshot from scratch (an empty record list and an empty
\* dedup set, filled by a new enumeration only), and the snapshot the main
\* loop has built and displayed is the one offered at the next choice prompt.
C12_RefreshRebuildsSnapshot ==
    [][ /\ ChoiceRead(<<"r">>) =>
            /\ signals' = <<>>
            /\ result' = "True"
            /\ entry = "main" => pc' = "scan"
        /\ (pc = "scan" /\ pc' # "crashed") =>
            /\ processes' = <<>>
            /\ seen_processes' = {}
            /\ idx' = 1
        /\ (entry = "main" /\ pc = "memory_health" /\ processes # <<>>) =>
            pc' = "menu_enter"
      ]_vars

(***************************************************************************)
(* Single-kill flow                                                        *)
(***************************************************************************)
\* the line read at the choice prompt is a number int() accepts
NumericChoice ==
    /\ JustRead("await_choice")
    /\ StripLower(last_input.text) \notin Letters
    /\ IsDigit(StripLower(last_input.text))
    /\ ~IntRaises(StripLower(last_input.text))

ChosenNumber == IntOf(StripLower(last_input.text))

InSingleKillFlow ==
    \/ pc \in {"confirm_single", "confirm_force"}
    \/ last_input.at \in {"confirm_single", "confirm_force"}

\* C13: a numeric choice k enters the single-kill flow if and only if
\* 1 <= k <= N, N being the number of records of the snapshot, and then the
\* flow is about record k; every signal sent in that flow targets the pid of
\* record k and no other.
C13_NumericChoiceTargetsRecord ==
    /\ NumericChoice =>
          /\ pc = "confirm_single" <=> (1 <= ChosenNumber /\ ChosenNumber <= Len(processes))
          /\ pc = "confirm_single" => sel = ChosenNumber
          /\ pc # "confirm_single" => pc = "await_choice" /\ signals = <<>>
    /\ (JustRead("await_choice") /\ pc = "confirm_single") => NumericChoice
    /\ InSingleKillFlow =>
          /\ sel \in DOMAIN processes
          /\ \A i \in DOMAIN signals :
                /\ signals[i].pid = processes[sel].pid
                /\ signals[i].name = processes[sel].name

\* record 2 of a snapshot of two different pids, killed gracefully, then by force
C13_Witness ==
    /\ last_input.at = "confirm_force"
    /\ Len(processes) = 2
    /\ sel = 2
    /\ processes[1].pid # processes[2].pid
    /\ Len(signals) = 2
    /\ signals[1].pid = processes[2].pid
    /\ signals[2].pid = processes[2].pid

(***************************************************************************)
(* Startup                                                                 *)
(***************************************************************************)
\* C14: if any of lsof, vm_stat, ps is absent when main starts, main reports
\* the failure exactly once and exits with a non-zero status before any
\* snapshot is built, any prompt is shown or any signal is sent.
C14_MissingToolExitsAtStartup ==
    (entry = "main" /\ MissingCommands # {} /\ pc # "tool_check") =>
        /\ pc = "exit"
        /\ exit_code > 0
        /\ exception = "none"
        /\ Len(out) = 1
        /\ out[1].level = "error"
        /\ lsof_status = "not_run"
        /\ processes = <<>>
        /\ lookups = <<>>
        /\ last_input = NoInput
        /\ signals = <<>>
        /\ result = "running"

\* two utilities are missing, one report
C14_Witness ==
    /\ entry = "main"
    /\ tools = {"lsof"}
    /\ pc = "exit"
    /\ exit_code = 1
    /\ out = <<LogLine("error", "vm_stat command not found")>>

(***************************************************************************)
(* Short rows                                                              *)
(***************************************************************************)
\* the rows the loop has been through
RowsDone == 1..(idx - 1)

ShortRow(i) == Len(data_lines[i]) < 10

\* rows that are not short and repeat the (pid, port) of no earlier such row
KeptRow(i) ==
    /\ ~ShortRow(i)
    /\ \A j \in 1..(i - 1) : ~ShortRow(j) => RowPair(j) # RowPair(i)

\* name, pid and port of the kept rows, in the order of the output: what the
\* scan yields when the short rows are taken out of the output
RecordsWithoutShortRows ==
    LET kept == SelectSeq([i \in RowsDone |-> i], KeptRow)
    IN  [k \in DOMAIN kept |->
           [name |-> data_lines[kept[k]][1],
            pid |-> data_lines[kept[k]][2],
            port |-> data_lines[kept[k]][9]]]

RecordIdentities ==
    [r \in DOMAIN processes |->
       [name |-> processes[r].name, pid |-> processes[r].pid, port |-> processes[r].port]]

\* C15: a row of the socket listing with fewer than 10 whitespace-separated
\* fields is skipped silently: it produces no record and no diagnostic, and
\* the records of the other rows are the same, in the same order, as if the
\* short row were not in the output.
C15_ShortRowsSkippedSilently ==
    (lsof_status = "ok" /\ pc \in {"scan_loop", "scan_returned", "display"}) =>
        /\ RecordIdentities = RecordsWithoutShortRows
        /\ Len(lookups) = Len(processes)
        /\ \A i \in RowsDone : (i = idx - 1 /\ ShortRow(i)) => out = <<>>

\* a short row followed by a full one: one record, that of the full row
C15_Witness ==
    /\ ScanComplete
    /\ Len(data_lines) = 2
    /\ ShortRow(1)
    /\ ~ShortRow(2)
    /\ Len(processes) = 1
    /\ processes[1].pid = data_lines[2][2]
    /\ processes[1].port = data_lines[2][9]

(***************************************************************************)
(* Memory formatting                                                       *)
(***************************************************************************)
\* the text is a whole number followed by the unit
IntegerQuantity(text) == text.form = "integer"

\* what the claim says of the text returned for the value bytes / 1024 KB
FormatRule(mem_kb, text) ==
    LET kb_lt(n) == mem_kb.bytes < n * 1024
    IN  /\ (text.unit = "KB" /\ IntegerQuantity(text)) <=> kb_lt(1024)
        /\ text.unit = "MB" <=> (~kb_lt(1024) /\ kb_lt(1048576))
        /\ text.unit = "GB" <=> ~kb_lt(1048576)
        /\ mem_kb.bytes = 0 => text = FormattedMemory("KB", "integer", 0, 0)
        /\ mem_kb.bytes = 512 * 1024 => text = FormattedMemory("KB", "integer", 512, 0)
        /\ mem_kb.bytes = 1024 * 1024 => text = FormattedMemory("MB", "one_decimal", 1, 0)
        /\ mem_kb.bytes = 1048576 * 1024 => text = FormattedMemory("GB", "one_decimal", 1, 0)

\* C18: for every memory value kb >= 0 a record can carry, format_memory
\* returns a KB string with an integer quantity exactly when kb < 1024, an MB
\* string when 1024 <= kb < 1048576 and a GB string when kb >= 1048576, with
\* 0 -> '0 KB', 512 -> '512 KB', 1024 -> '1.0 MB', 1048576 -> '1.0 GB'; it
\* never fails.
C18_FormatMemoryUnits ==
    /\ (entry = "format_memory" /\ pc = "format_returned") =>
          /\ exception = "none"
          /\ FormatRule(call.args, call.value)
    /\ \A r \in DOMAIN processes :
          FormatRule(processes[r].memory_kb, processes[r].memory_formatted)

(***************************************************************************)
(* System memory snapshot                                                  *)
(***************************************************************************)
MemoryInfoReturned == entry = "get_system_memory_info" /\ pc = "memory_info_returned"

\* the lines of the output that carry field f, and whether they can be read
FieldLines(f) ==
    { i \in DOMAIN call.vm_stat.stdout : call.vm_stat.stdout[i].label = PageFields[f].label }

Unparsable(i) ==
    LET digits == SelectSeq(Strip(call.vm_stat.stdout[i].rest), LAMBDA c : c # ".")
    IN  digits = <<>> \/ \E d \in DOMAIN digits : digits[d] \notin DecimalChars

\* vm_stat could not be run, ended with a non-zero status, or printed a
\* count that is not a number
InvocationFailed == call.vm_stat.status # "ok"

ParsingFailed == \E f \in DOMAIN PageFields : \E i \in FieldLines(f) : Unparsable(i)

\* an empty snapshot, or one whose sizes are all zero
EmptyOrZeroed(info) ==
    \A f \in DOMAIN PageFields :
        PageFields[f].mb \in DOMAIN info => info[PageFields[f].mb] = 0

Diagnosed == \E i \in DOMAIN out : out[i].level = "error"

\* C19: get_system_memory_info never raises; a field absent from the vm_stat
\* output yields 0 MB for that field and leaves the other fields as they
\* are; any failure of the invocation or of the parsing yields an empty or
\* zeroed snapshot plus a diagnostic.
C19_MemoryInfoNeverRaises ==
    MemoryInfoReturned =>
        /\ exception = "none"
        /\ (InvocationFailed \/ ParsingFailed) =>
              /\ EmptyOrZeroed(call.value)
              /\ Diagnosed
        /\ ~(InvocationFailed \/ ParsingFailed) =>
              \A f \in DOMAIN PageFields :
                 /\ PageFields[f].mb \in DOMAIN call.value
                 /\ FieldLines(f) = {} => call.value[PageFields[f].mb] = 0
                 /\ \A i \in FieldLines(f) :
                       (\A j \in FieldLines(f) : j <= i) =>
                          call.value[PageFields[f].mb] =
                             IntOf(SelectSeq(Strip(call.vm_stat.stdout[i].rest),
                                             LAMBDA c : c # ".")) * 16384

(***************************************************************************)
(* Bulk kill and force                                                     *)
(***************************************************************************)
\* C20: the bulk-kill flow never sends a forced signal and never offers the
\* force prompt: every kill_process call made under choice 'a' has
\* force = False, whatever the individual outcomes, and after the
\* 'Killed K/N' report the session is back at the choice prompt.
C20_BulkKillNeverForces ==
    /\ pc = "confirm_bulk" => signals = <<>>
    /\ JustRead("confirm_bulk") =>
          /\ pc = "await_choice"
          /\ \A i \in DOMAIN signals : ~signals[i].force
          /\ last_input.text \in YesAnswers =>
                /\ Len(signals) = Len(processes)
                /\ out[Len(out)].text = "Killed"

\* a confirmed bulk kill of two records in which every termination failed
C20_Witness ==
    /\ JustRead("confirm_bulk")
    /\ Len(processes) = 2
    /\ Len(signals) = 2
    /\ signals[1].outcome = "AccessDenied"
    /\ signals[2].outcome = "Vanished"
    /\ out[Len(out)] = KilledLine(0, 2)
    /\ pc = "await_choice"

(***************************************************************************)
(* Memory report                                                           *)
(***************************************************************************)
\* the operator has just asked for the memory report
MemoryReportRequested ==
    JustRead("await_choice") /\ StripLower(last_input.text) = <<"m">>

\* the reports among the lines printed by the last step
ReportsShown == { i \in DOMAIN out : out[i].level = "report" }

\* the position of record i of nodes when the list is ordered by resident
\* memory descending and equal records keep their order
Rank(nodes, i) ==
    Cardinality({ j \in DOMAIN nodes : nodes[j].rss_kb > nodes[i].rss_kb })
    + Cardinality({ j \in 1..i : nodes[j].rss_kb = nodes[i].rss_kb })

\* C16: the memory report orders the auxiliary process records by resident
\* memory descending over the full record set, truncation to the top 10
\* being applied only afterwards, and records with equal resident memory keep
\* their original enumeration order.
C16_ReportRankedByMemory ==
    MemoryReportRequested =>
        /\ ReportsShown # {}
        /\ \A r \in ReportsShown :
              LET nodes == out[r].node_processes
                  rows == out[r].table_data
              IN  /\ Len(rows) = (IF Len(nodes) < 10 THEN Len(nodes) ELSE 10)
                  /\ \A i \in DOMAIN nodes :
                        Rank(nodes, i) <= 10 => rows[Rank(nodes, i)] = nodes[i]

\* case-insensitive match of a keyword list against the words of a command
LowerWord(w) ==
    CASE w = "Code" -> "code"
      [] w = "Helper" -> "helper"
      [] w = "Node" -> "node"
      [] OTHER -> w

MatchesAny(command, keywords) ==
    \E i \in DOMAIN command : LowerWord(command[i]) \in keywords

\* C17: the classifier that gives each auxiliary process record its kind
\* matches exclusion and inclusion keywords case-insensitively against the
\* command text, and a command with both an exclusion keyword and an
\* inclusion keyword is classified as relevant, not noise.  Stated for the
\* kinds the memory report shows, with "helper" excluded and "node" included.
C17_InclusionOverridesExclusion ==
    MemoryReportRequested =>
        /\ ReportsShown # {}
        /\ \A r \in ReportsShown :
           \A k \in DOMAIN out[r].table_data :
              LET row == out[r].table_data[k]
                  excluded == MatchesAny(row.command, {"helper"})
                  included == MatchesAny(row.command, {"node"})
              IN  /\ (excluded /\ included) => row.type = "relevant"
                  /\ (excluded /\ ~included) => row.type = "noise"

(***************************************************************************)
(* The snapshot during one session                                         *)
(***************************************************************************)
\* positions of the program inside interactive_menu and its sub-session
InMenu == pc \in Prompts \cup {"menu_enter", "node_menu", "node_detail"}

\* C21: within one invocation of interactive_menu the snapshot is never
\* modified: no action adds, removes, reorders or alters a record, so the
\* record count and the index-to-record mapping stay fixed until 'r' is
\* chosen, and a record whose process was already killed successfully stays
\* selectable and is targeted again by its stored pid.
C21_SnapshotFixedDuringSession ==
    [][ InMenu =>
          /\ processes' = processes
          /\ \A i \in DOMAIN signals' :
                \E r \in DOMAIN processes :
                   /\ signals'[i].pid = processes[r].pid
                   /\ signals'[i].name = processes[r].name
          /\ pc' \in {"confirm_single", "confirm_force"} => sel' \in DOMAIN processes
      ]_vars

\* two records of one pid: the bulk kill ends the process at the first record
\* and signals the same pid again at the second
C21_Witness ==
    /\ JustRead("confirm_bulk")
    /\ pc = "await_choice"
    /\ Len(processes) = 2
    /\ processes[1].pid = processes[2].pid
    /\ Len(signals) = 2
    /\ signals[1].outcome = "ok"
    /\ signals[2].pid = processes[2].pid
    /\ signals[2].outcome = "NoSuchProcess"

(***************************************************************************)
(* Empty snapshot                                                          *)
(***************************************************************************)
\* main holds the empty snapshot that its scan has returned
MainHoldsEmptySnapshot ==
    /\ entry = "main"
    /\ lsof_status \in {"ok", "nonzero"}
    /\ pc \notin {"scan", "scan_loop"}
    /\ processes = <<>>

\* C22: when the snapshot is empty, interactive_menu returns at once without
\* reading any input, and main takes the result as 'do not refresh': the
\* session ends after one scan and display, with no choice prompt, no refresh
\* and no signal sent.
C22_EmptySnapshotEndsSession ==
    /\ (entry = "interactive_menu" /\ processes = <<>> /\ pc # "menu_enter") =>
          /\ pc = "menu_returned"
          /\ result = "None"
          /\ last_input = NoInput
          /\ signals = <<>>
    /\ MainHoldsEmptySnapshot =>
          /\ pc \in {"display", "memory_health", "menu_enter", "exit"}
          /\ exception = "none"
          /\ pc = "exit" => (result = "None" /\ exit_code = 0)
          /\ last_input = NoInput
          /\ signals = <<>>

(***************************************************************************)
(* Progress                                                                *)
(***************************************************************************)
\* where interactive_menu has handed control back: to its caller, to the
\* refresh of main, or to the end of main
SessionLeft == {"menu_returned", "scan", "exit"}

\* the step answers a prompt of the core session (not the auxiliary 'n', 'm')
CoreStep ==
    /\ pc \in Prompts
    /\ ~ChoiceRead(<<"n">>)
    /\ ~ChoiceRead(<<"m">>)

\* C23: the session always makes progress and can always end: every core
\* action chosen at the prompt (single kill with or without escalation, bulk
\* kill over a finite snapshot, cancellation, invalid input) completes in a
\* bounded number of steps and leads back to the choice prompt, to a refresh
\* or to exit, so that main terminates once the operator enters 'q' or the
\* input ends.  Each answer is one step; a flow is at most the choice, the
\* confirmation and the force confirmation.
C23_CoreActionsReturnToPrompt ==
    [][ CoreStep =>
          /\ pc' \in Prompts \cup SessionLeft
          /\ pc = "await_choice" => pc' # "confirm_force"
          /\ pc = "confirm_single" => pc' \in {"await_choice", "confirm_force"} \cup SessionLeft
          /\ pc \in {"confirm_bulk", "confirm_force"} => pc' \in {"await_choice"} \cup SessionLeft
          /\ Len(signals') <= Len(processes) + 1
          /\ (ChoiceRead(<<"q">>) \/ last_input'.kind # "line") => pc' \in SessionLeft \ {"scan"}
      ]_vars

TypeOK ==
    /\ entry \in {"main", "get_listening_processes", "interactive_menu", "kill_process",
                 "format_memory", "get_system_memory_info"}
    /\ sel \in 0..Len(processes)
    /\ pc \in {"confirm_single", "confirm_force"} => sel \in DOMAIN processes
    /\ idx \in 1..(MaxRows + 1)
    /\ entry # "interactive_menu" => Len(processes) = Len(lookups)
=============================================================================
